---- MODULE Spec2Model ----
(***************************************************************************)
(* The issue store of SheetFlow (src/lib/actions.ts): the server actions   *)
(* processIssueCommandAction, updateIssueAction, createIssueDirectAction,  *)
(* deleteIssueAction, addAssigneeAction and deleteAssigneeAction acting on *)
(* the module-level issuesDB and assigneesDB.                              *)
(*                                                                         *)
(* Representation.  An optional value (a JavaScript value that may be      *)
(* undefined, or a FormData entry that may be null) is a set: {} when it   *)
(* is missing and {v} when it is v.  Strings the code takes apart          *)
(* character by character (issue identifiers, the raw response code) are   *)
(* sequences of one-character strings; all other strings are TLA+ strings. *)
(* A timestamp is the clock reading it was made from: toISOString is       *)
(* injective and order preserving on the readings.                         *)
(***************************************************************************)
EXTENDS Integers, Sequences, FiniteSets, TLC

VARIABLES
    issuesDB,      \* actions.ts:11, the ordered issue store
    assigneesDB,   \* mock-data `assignees`, the assignee registry
    clock,         \* the last reading of the system clock (new Date())
    inflight,      \* processIssueCommandAction calls suspended at the await
    hung,          \* of the suspended calls, those whose interpreter never settles
    everStored,    \* history: every identifier that has been in issuesDB
    call,          \* the entry point that ran in the last step, with its input
    result,        \* what that entry point returned
    ops            \* number of calls started since the initial state

vars ==
    <<issuesDB, assigneesDB, clock, inflight, hung, everStored, call, result, ops>>

\* ------------------------------------------------------------------ bounds

\* Calls of entry points in one behaviour.
MaxOps == 2

\* ------------------------------------------------------- optional values

None == {}

Some(v) == {v}

Get(o) == CHOOSE v \in o : TRUE

\* JavaScript truthiness of an optional string: undefined and "" are falsy.
Truthy(o) == o # None /\ o # Some("")

\* ------------------------------------------------------ character strings

DigitChars == <<"0", "1", "2", "3", "4", "5", "6", "7", "8", "9">>

IsDigit(c) == \E i \in DOMAIN DigitChars : DigitChars[i] = c

DigitVal(c) == (CHOOSE i \in DOMAIN DigitChars : DigitChars[i] = c) - 1

RECURSIVE DigitsValue(_)
DigitsValue(s) ==
    IF s = <<>> THEN 0
    ELSE DigitsValue(SubSeq(s, 1, Len(s) - 1)) * 10 + DigitVal(s[Len(s)])

RECURSIVE TrimStart(_)
TrimStart(s) == IF s # <<>> /\ s[1] = " " THEN TrimStart(Tail(s)) ELSE s

RECURSIVE DigitPrefix(_)
DigitPrefix(s) ==
    IF s # <<>> /\ IsDigit(s[1]) THEN <<s[1]>> \o DigitPrefix(Tail(s)) ELSE <<>>

\* parseInt(s, 10): leading blanks and one sign are skipped, the longest run
\* of decimal digits is read, and NaN (None here) results when there is none.
parseInt(s) ==
    LET t == TrimStart(s)
        signed == t # <<>> /\ t[1] \in {"-", "+"}
        d == DigitPrefix(IF signed THEN Tail(t) ELSE t)
    IN  IF d = <<>> THEN None
        ELSE Some((IF signed /\ t[1] = "-" THEN -1 ELSE 1) * DigitsValue(d))

\* Number.prototype.toString for a non-negative integer.
RECURSIVE NumToString(_)
NumToString(n) ==
    IF n < 10 THEN <<DigitChars[n + 1]>>
    ELSE NumToString(n \div 10) \o <<DigitChars[(n % 10) + 1]>>

RECURSIVE padStart(_, _, _)
padStart(s, n, c) == IF Len(s) >= n THEN s ELSE padStart(<<c>> \o s, n, c)

\* String.prototype.trim() === "" for a character string.
IsBlank(s) == TrimStart(s) = <<>>

SetMax(S) == CHOOSE m \in S : \A x \in S : x <= m

\* -------------------------------------------------------------- constants

issueStatuses == {"To Do", "In Progress", "Done", "Backlog", "Cancelled"}

issuePriorities == {"Low", "Medium", "High", "Urgent"}

\* lib/types is not among the sources: the members are the methods the mock
\* data uses.
apiMethods == {"GET", "POST"}

UNASSIGNED_FORM_VALUE == "_SELECT_UNASSIGNED_"

API_METHOD_NA_FORM_VALUE == "_API_METHOD_NA_"

\* ------------------------------------------------------------ identifiers

SF == <<"S", "F", "-">>

\* A match that only looks at the prefix and takes whatever follows it.
MatchSF_prefixOnly(id) ==
    IF Len(id) > Len(SF) /\ SubSeq(id, 1, Len(SF)) = SF
    THEN Some(SubSeq(id, Len(SF) + 1, Len(id)))
    ELSE None

\* issue.id.match(/^SF-(\d+)$/): the digits captured, None when no match.
MatchSF(id) ==
    IF /\ Len(id) > Len(SF)
       /\ SubSeq(id, 1, Len(SF)) = SF
       /\ \A i \in (Len(SF) + 1)..Len(id) : IsDigit(id[i])
    THEN Some(SubSeq(id, Len(SF) + 1, Len(id)))
    ELSE None

\* A generator that counts the matching identifiers instead of taking their
\* largest suffix.
generateNewIssueId_byCount(existingIssues) ==
    LET matched == {i \in DOMAIN existingIssues : MatchSF(existingIssues[i].id) # None}
    IN  SF \o padStart(NumToString(Cardinality(matched) + 1), 3, "0")

generateNewIssueId(existingIssues) ==
    LET matched == {MatchSF(existingIssues[i].id) : i \in DOMAIN existingIssues} \ {None}
        numericIds == UNION {parseInt(Get(m)) : m \in matched}
        maxId == IF numericIds # {} THEN SetMax(numericIds) ELSE 0
    IN  SF \o padStart(NumToString(maxId + 1), 3, "0")

\* ------------------------------------------------------------- mock data

\* new Date(2023, month, day), months counted from 0, as an ordinal that
\* grows with the date (October is month 9, November month 10).
DateOf(month, day) == (month - 9) * 31 + day

IssueId(digits) == SF \o digits

NoDescription ==
    [apiName |-> None, method |-> None, payload |-> None, response |-> None,
     responseCode |-> None, imageDataUri |-> None, generalNotes |-> None]

initialIssues ==
    << [id |-> IssueId(<<"0", "0", "1">>),
        title |-> "Implement user authentication API",
        description |->
            [apiName |-> Some("/auth/login"), method |-> Some("POST"),
             payload |-> Some("{ email, password }"),
             response |-> Some("{ token, userId }"),
             responseCode |-> Some(200),
             generalNotes |-> Some("Backend endpoint for login."),
             imageDataUri |-> Some("https://placehold.co/300x200.png")],
        status |-> "In Progress", priority |-> "Urgent",
        assignee |-> Some("Alice Wonderland"), reporter |-> "Project Lead",
        createdAt |-> DateOf(10, 1), updatedAt |-> DateOf(10, 5),
        dueDate |-> Some(DateOf(10, 15)), labels |-> <<"auth", "backend", "api">>],
       [id |-> IssueId(<<"0", "0", "2">>),
        title |-> "Design issue list UI",
        description |->
            [NoDescription EXCEPT !.generalNotes = Some("Create a responsive UI.")],
        status |-> "To Do", priority |-> "High",
        assignee |-> Some("Bob The Builder"), reporter |-> "UX Designer",
        createdAt |-> DateOf(10, 2), updatedAt |-> DateOf(10, 2),
        dueDate |-> Some(DateOf(10, 20)), labels |-> <<"ui", "frontend", "design">>],
       [id |-> IssueId(<<"0", "0", "3">>),
        title |-> "Integrate Google Sheets API for reading data",
        description |->
            [NoDescription EXCEPT !.apiName = Some("Google Sheets API v4"),
                                  !.method = Some("GET"),
                                  !.generalNotes = Some("Focus on read operations first."),
                                  !.responseCode = Some(200)],
        status |-> "Backlog", priority |-> "Medium",
        assignee |-> None, reporter |-> "Project Lead",
        createdAt |-> DateOf(10, 3), updatedAt |-> DateOf(10, 3),
        dueDate |-> None, labels |-> <<"api", "backend", "integration">>],
       [id |-> IssueId(<<"0", "0", "4">>),
        title |-> "Fix layout bug on mobile devices",
        description |->
            [NoDescription EXCEPT !.generalNotes = Some("The main content area overflows."),
                                  !.imageDataUri = Some("https://placehold.co/300x150.png")],
        status |-> "Done", priority |-> "High",
        assignee |-> Some("Charlie Brown"), reporter |-> "QA Tester",
        createdAt |-> DateOf(9, 15), updatedAt |-> DateOf(9, 20),
        dueDate |-> Some(DateOf(9, 18)), labels |-> <<"bug", "frontend", "mobile">>],
       [id |-> IssueId(<<"0", "0", "5">>),
        title |-> "Setup CI/CD pipeline",
        description |->
            [NoDescription EXCEPT !.generalNotes = Some("Automate build, test, and deployment.")],
        status |-> "To Do", priority |-> "Medium",
        assignee |-> Some("Diana Prince"), reporter |-> "DevOps Engineer",
        createdAt |-> DateOf(10, 8), updatedAt |-> DateOf(10, 8),
        dueDate |-> None, labels |-> <<"devops", "ci-cd">>] >>

assignees ==
    <<"Alice Wonderland", "Bob The Builder", "Charlie Brown", "Diana Prince",
      "Edward Scissorhands", "Fiona Gallagher">>

\* ------------------------------------------------------------ store helpers

IdsOf(issues) == {issues[i].id : i \in DOMAIN issues}

\* Array.prototype.findIndex, counted from 1; 0 when nothing is found (-1).
\* A search that falls back on the first record when none has the identifier.
findIndex_defaultFirst(issues, id) ==
    IF \E i \in DOMAIN issues : issues[i].id = id
    THEN CHOOSE i \in DOMAIN issues :
            issues[i].id = id /\ \A j \in 1..(i - 1) : issues[j].id # id
    ELSE IF issues # <<>> THEN 1 ELSE 0

findIndex(issues, id) ==
    IF \E i \in DOMAIN issues : issues[i].id = id
    THEN CHOOSE i \in DOMAIN issues :
            issues[i].id = id /\ \A j \in 1..(i - 1) : issues[j].id # id
    ELSE 0

\* An insertion at the end of the array (Array.prototype.push).
unshift_push(issues, issue) == issues \o <<issue>>

\* Array.prototype.unshift.
unshift(issues, issue) == <<issue>> \o issues

\* splice(index) without a count: everything from index on is removed.
splice_toEnd(s, index) == SubSeq(s, 1, index - 1)

\* Array.prototype.splice(index, 1).
splice(s, index) == SubSeq(s, 1, index - 1) \o SubSeq(s, index + 1, Len(s))

\* A store that moves the written record to the head of the array.
assignAt_moveToFront(issues, issueIndex, issue) ==
    <<issue>> \o SubSeq(issues, 1, issueIndex - 1)
              \o SubSeq(issues, issueIndex + 1, Len(issues))

\* actions.ts:272, issuesDB[issueIndex] = updatedIssue.
assignAt(issues, issueIndex, issue) == [issues EXCEPT ![issueIndex] = issue]

\* new Date(): a reading no earlier than the last one.  Only the order of
\* the readings is observed, so a later reading is the next value.
ReadClock(last) == {last, last + 1}

\* ----------------------------------------------------------------- results

\* A returned action state: status and message, the fields a validation
\* failure names, the identifier it carries (updatedIssueId, newIssueId, or
\* issue.id) and the interpretation it carries.
Result(status, message) ==
    [status |-> status, message |-> message, fields |-> {}, id |-> None,
     interpretation |-> None]

ResultId(status, message, id) ==
    [Result(status, message) EXCEPT !.id = Some(id)]

ValidationFailed(fields) ==
    [Result("error", "Validation failed") EXCEPT !.fields = fields]

WithInterpretation(res, interpretation) ==
    [res EXCEPT !.interpretation = Some(interpretation)]

\* No entry point has returned in this step (a command waits for the interpreter).
Pending == Result("pending", "")

Call(fn, arg) == [fn |-> fn, arg |-> arg]

StoreUnchanged == UNCHANGED <<issuesDB, assigneesDB, clock, everStored>>

\* ------------------------------------------------------------ validation

\* A FormData entry read by formData.get: None when the field was not
\* submitted (null), otherwise the submitted string.

\* z.string(), z.string().optional() and z.string().optional().default(''):
\* each accepts a string; optional() and default() only let undefined pass,
\* and formData.get never yields undefined, so null is rejected by all three.
zString(val) == val # None

\* z.string().min(1, ...).
zStringMin1(val) == val # None /\ val # Some("")

\* A check that accepts any submitted string.
zOneOf_anyString(val, members) == val # None

\* z.custom(val => members.includes(val)).
zOneOf(val, members) == \E m \in members : val = Some(m)

\* The preprocess step of description_responseCode: [undefined |-> TRUE] for
\* a missing or blank entry, otherwise the parseInt of the text.
preprocessResponseCode(val) ==
    IF val = None \/ IsBlank(Get(val))
    THEN [undefined |-> TRUE, number |-> None]
    ELSE [undefined |-> FALSE, number |-> parseInt(Get(val))]

\* z.number().int().optional().nullable() and the refine after it: NaN is
\* no number.
zResponseCode(val) ==
    preprocessResponseCode(val).undefined \/ preprocessResponseCode(val).number # None

\* The fields of the submission that createIssueDirectSchema rejects.
createIssueDirectSchema(rawData) ==
    {f \in DOMAIN rawData :
        \/ f = "title" /\ ~zStringMin1(rawData[f])
        \/ f = "status" /\ ~zOneOf(rawData[f], issueStatuses)
        \/ f = "priority" /\ ~zOneOf(rawData[f], issuePriorities)
        \/ f = "description_responseCode" /\ ~zResponseCode(rawData[f])
        \/ /\ f \in {"assignee", "description_apiName", "description_method",
                     "description_payload", "description_response",
                     "description_imageDataUri", "description_generalNotes"}
           /\ ~zString(rawData[f])}

\* The fields of the submission that updateIssueSchema rejects.
updateIssueSchema(rawData) ==
    {f \in DOMAIN rawData :
        \/ f = "title" /\ ~zStringMin1(rawData[f])
        \/ f = "status" /\ ~zOneOf(rawData[f], issueStatuses)
        \/ f = "priority" /\ ~zOneOf(rawData[f], issuePriorities)
        \/ f = "description_responseCode" /\ ~zResponseCode(rawData[f])
        \/ /\ f \in {"id", "assignee", "description_apiName", "description_method",
                     "description_payload", "description_response",
                     "description_imageDataUri", "description_imageDataUri_clear",
                     "description_generalNotes"}
           /\ ~zString(rawData[f])}

\* ------------------------------------------------- building a description

\* `text || undefined` for a validated string entry.
orUndefined(val) == IF Truthy(val) THEN val ELSE None

\* The method taken as submitted, without the membership test.
actualApiMethod_unchecked(description_method) ==
    IF Truthy(description_method) /\ description_method # Some(API_METHOD_NA_FORM_VALUE)
    THEN description_method
    ELSE None

actualApiMethod(description_method) ==
    IF /\ Truthy(description_method)
       /\ description_method # Some(API_METHOD_NA_FORM_VALUE)
       /\ Get(description_method) \in apiMethods
    THEN description_method
    ELSE None

\* The responseCode stored for a validated entry.
storedResponseCode(val) ==
    IF preprocessResponseCode(val).undefined THEN None
    ELSE preprocessResponseCode(val).number

\* An image rule that lets a submitted image win over the clear flag.
updatedImageDataUri_newFirst(data, existingIssue) ==
    IF Truthy(data.description_imageDataUri) THEN data.description_imageDataUri
    ELSE IF data.description_imageDataUri_clear = Some("true") THEN None
    ELSE existingIssue.description.imageDataUri

\* actions.ts:257-259, the image reference after an update.
updatedImageDataUri(data, existingIssue) ==
    IF data.description_imageDataUri_clear = Some("true") THEN None
    ELSE IF Truthy(data.description_imageDataUri) THEN data.description_imageDataUri
    ELSE existingIssue.description.imageDataUri

\* A description that keeps the stored value of every field submitted blank.
updateDescription_merged(data, existingIssue) ==
    LET old == existingIssue.description
        kept(new, stored) == IF new = None THEN stored ELSE new
    IN  [apiName |-> kept(orUndefined(data.description_apiName), old.apiName),
         method |-> kept(actualApiMethod(data.description_method), old.method),
         payload |-> kept(orUndefined(data.description_payload), old.payload),
         response |-> kept(orUndefined(data.description_response), old.response),
         responseCode |->
            kept(storedResponseCode(data.description_responseCode), old.responseCode),
         imageDataUri |-> updatedImageDataUri(data, existingIssue),
         generalNotes |->
            kept(orUndefined(data.description_generalNotes), old.generalNotes)]

\* actions.ts:251-261, newDescription of updateIssueAction.
updateDescription(data, existingIssue) ==
    [apiName |-> orUndefined(data.description_apiName),
     method |-> actualApiMethod(data.description_method),
     payload |-> orUndefined(data.description_payload),
     response |-> orUndefined(data.description_response),
     responseCode |-> storedResponseCode(data.description_responseCode),
     imageDataUri |-> updatedImageDataUri(data, existingIssue),
     generalNotes |-> orUndefined(data.description_generalNotes)]

\* actions.ts:365-373, newDescription of createIssueDirectAction.
createDescription(data) ==
    [apiName |-> orUndefined(data.description_apiName),
     method |-> actualApiMethod(data.description_method),
     payload |-> orUndefined(data.description_payload),
     response |-> orUndefined(data.description_response),
     responseCode |-> storedResponseCode(data.description_responseCode),
     imageDataUri |-> orUndefined(data.description_imageDataUri),
     generalNotes |-> orUndefined(data.description_generalNotes)]

\* actions.ts:268, the assignee stored by updateIssueAction.
updateAssignee(assignee) ==
    IF assignee = Some(UNASSIGNED_FORM_VALUE) THEN None ELSE assignee

\* actions.ts:381, the assignee stored by createIssueDirectAction.
createAssignee(assignee) ==
    IF assignee = Some(UNASSIGNED_FORM_VALUE) \/ assignee = Some("") THEN None
    ELSE assignee

\* actions.ts:263-271, updatedIssue.
\* An update that stamps the record as if the form had created it.
updatedIssue_restamps(existingIssue, data, now) ==
    [existingIssue EXCEPT
        !.title = Get(data.title),
        !.status = Get(data.status),
        !.priority = Get(data.priority),
        !.assignee = updateAssignee(data.assignee),
        !.description = updateDescription(data, existingIssue),
        !.reporter = "Manual Form Entry",
        !.createdAt = now,
        !.updatedAt = now]

updatedIssue(existingIssue, data, now) ==
    [existingIssue EXCEPT
        !.title = Get(data.title),
        !.status = Get(data.status),
        !.priority = Get(data.priority),
        !.assignee = updateAssignee(data.assignee),
        !.description = updateDescription(data, existingIssue),
        !.updatedAt = now]

\* actions.ts:375-386, newIssue of createIssueDirectAction; the two
\* timestamps come from two readings of the clock.
directIssue(newIssueId, data, createdAt, updatedAt) ==
    [id |-> newIssueId,
     title |-> Get(data.title),
     description |-> createDescription(data),
     status |-> Get(data.status),
     priority |-> Get(data.priority),
     assignee |-> createAssignee(data.assignee),
     reporter |-> "Manual Form Entry",
     createdAt |-> createdAt,
     updatedAt |-> updatedAt,
     dueDate |-> None,
     labels |-> <<>>]

\* ------------------------------------------------------- updateIssueAction

updateIssueAction(formData) ==
    /\ ops < MaxOps
    /\ ops' = ops + 1
    /\ call' = Call("updateIssueAction", formData)
    /\ UNCHANGED <<assigneesDB, inflight, hung>>
    /\ LET rejected == updateIssueSchema(formData)
           issueIndex == findIndex(issuesDB, Get(formData.id))
       IN  IF rejected # {}
           THEN /\ result' = ValidationFailed(rejected)
                /\ UNCHANGED <<issuesDB, clock, everStored>>
           ELSE IF issueIndex = 0
           THEN /\ result' = Result("error", "Issue not found.")
                /\ UNCHANGED <<issuesDB, clock, everStored>>
           ELSE \E now \in ReadClock(clock) :
                /\ issuesDB' = assignAt(issuesDB, issueIndex,
                        updatedIssue(issuesDB[issueIndex], formData, now))
                /\ clock' = now
                /\ result' = ResultId("success", "Issue updated successfully.",
                                      issuesDB[issueIndex].id)
                /\ UNCHANGED everStored

\* ------------------------------------------------- createIssueDirectAction

createIssueDirectAction(formData) ==
    /\ ops < MaxOps
    /\ ops' = ops + 1
    /\ call' = Call("createIssueDirectAction", formData)
    /\ UNCHANGED <<assigneesDB, inflight, hung>>
    /\ LET rejected == createIssueDirectSchema(formData)
           newIssueId == generateNewIssueId(issuesDB)
       IN  IF rejected # {}
           THEN /\ result' = ValidationFailed(rejected)
                /\ UNCHANGED <<issuesDB, clock, everStored>>
           ELSE \E createdAt \in ReadClock(clock) : \E updatedAt \in ReadClock(createdAt) :
                /\ issuesDB' = unshift(issuesDB,
                        directIssue(newIssueId, formData, createdAt, updatedAt))
                /\ clock' = updatedAt
                /\ everStored' = everStored \cup {newIssueId}
                /\ result' = ResultId("success", "New issue created directly.", newIssueId)

\* ------------------------------------------------ processIssueCommandAction

\* An interpretation (InterpretIssueCommandOutput): action is a string, the
\* other members are optional; issueId is a character string.
NoInterpretation ==
    [action |-> "", issueId |-> None, title |-> None, description |-> None,
     assignee |-> None, status |-> None, priority |-> None]

\* String.prototype.trim() === '' for the titles the interpreter may report.
TitleIsBlank(title) == title \in {"", " "}

\* A flow that accepts a createIssue output whatever its title is.
interpretIssueCommandFlow_noTitleCheck(outcome) ==
    IF outcome.rejected
    THEN [threw |-> TRUE, error |-> outcome.error]
    ELSE IF outcome.output = None
    THEN [threw |-> TRUE,
          error |-> Some("AI interpretation failed to produce a valid output based on the schema.")]
    ELSE [threw |-> FALSE, output |-> Get(outcome.output)]

\* interpret-issue-command.ts:97-115.  outcome.rejected: the prompt call
\* itself failed, with outcome.error the message of the Error thrown (None
\* when what was thrown is no Error); outcome.output: what the prompt
\* produced, None for nothing.  The flow throws an Error or returns the output.
interpretIssueCommandFlow(outcome) ==
    IF outcome.rejected
    THEN [threw |-> TRUE, error |-> outcome.error]
    ELSE IF outcome.output = None
    THEN [threw |-> TRUE,
          error |-> Some("AI interpretation failed to produce a valid output based on the schema.")]
    ELSE IF /\ Get(outcome.output).action = "createIssue"
            /\ \/ ~Truthy(Get(outcome.output).title)
               \/ TitleIsBlank(Get(Get(outcome.output).title))
    THEN [threw |-> TRUE,
          error |-> Some("AI interpretation failed: Title is missing for 'createIssue' action.")]
    ELSE [threw |-> FALSE, output |-> Get(outcome.output)]

\* actions.ts:149-156, the result returned for what the try block threw.
catchError(error) ==
    Result("error",
           IF error # None THEN Get(error)
           ELSE "Failed to process command. Please try again.")

\* An assignee stored as the interpreter reports it.
commandAssignee_asReported(assignee) ==
    IF ~Truthy(assignee) THEN None ELSE assignee

\* actions.ts:86 and 109, the assignee a command stores.
commandAssignee(assignee) ==
    IF assignee = Some("unassigned") \/ ~Truthy(assignee) THEN None ELSE assignee

\* actions.ts:72-91, newIssue of the createIssue branch.
commandIssue(newIssueId, interpretation, createdAt, updatedAt) ==
    [id |-> newIssueId,
     title |-> Get(interpretation.title),
     description |->
        [NoDescription EXCEPT
            !.generalNotes = IF Truthy(interpretation.description)
                             THEN interpretation.description ELSE Some("")],
     status |-> IF zOneOf(interpretation.status, issueStatuses)
                THEN Get(interpretation.status) ELSE "To Do",
     priority |-> IF zOneOf(interpretation.priority, issuePriorities)
                  THEN Get(interpretation.priority) ELSE "Medium",
     assignee |-> commandAssignee(interpretation.assignee),
     reporter |-> "AI Command Bar",
     createdAt |-> createdAt,
     updatedAt |-> updatedAt,
     dueDate |-> None,
     labels |-> <<>>]

\* A branch selection that takes an assignIssue whose assignee is any string,
\* the empty one included.
commandBranch_anyAssignee(interpretation) ==
    IF interpretation.action = "assignIssue" /\ interpretation.assignee # None
    THEN "assign"
    ELSE IF interpretation.action = "updateIssueStatus" /\ Truthy(interpretation.status)
    THEN IF zOneOf(interpretation.status, issueStatuses)
         THEN "status" ELSE "invalid status"
    ELSE IF interpretation.action = "updateIssuePriority" /\ Truthy(interpretation.priority)
    THEN IF zOneOf(interpretation.priority, issuePriorities)
         THEN "priority" ELSE "invalid priority"
    ELSE IF interpretation.action = "updateIssueDescription"
            /\ interpretation.description # None
    THEN "description"
    ELSE IF interpretation.action = "updateIssueTitle" /\ Truthy(interpretation.title)
    THEN "title"
    ELSE "unknown"

\* actions.ts:108-134, the branch taken for an interpretation that names an
\* existing issue.
\* A branch selection that takes any status or priority that is given.
commandBranch_uncheckedEnums(interpretation) ==
    IF interpretation.action = "assignIssue" /\ Truthy(interpretation.assignee)
    THEN "assign"
    ELSE IF interpretation.action = "updateIssueStatus" /\ Truthy(interpretation.status)
    THEN "status"
    ELSE IF interpretation.action = "updateIssuePriority" /\ Truthy(interpretation.priority)
    THEN "priority"
    ELSE IF interpretation.action = "updateIssueDescription"
            /\ interpretation.description # None
    THEN "description"
    ELSE IF interpretation.action = "updateIssueTitle" /\ Truthy(interpretation.title)
    THEN "title"
    ELSE "unknown"

commandBranch(interpretation) ==
    IF interpretation.action = "assignIssue" /\ Truthy(interpretation.assignee)
    THEN "assign"
    ELSE IF interpretation.action = "updateIssueStatus" /\ Truthy(interpretation.status)
    THEN IF zOneOf(interpretation.status, issueStatuses)
         THEN "status" ELSE "invalid status"
    ELSE IF interpretation.action = "updateIssuePriority" /\ Truthy(interpretation.priority)
    THEN IF zOneOf(interpretation.priority, issuePriorities)
         THEN "priority" ELSE "invalid priority"
    ELSE IF interpretation.action = "updateIssueDescription"
            /\ interpretation.description # None
    THEN "description"
    ELSE IF interpretation.action = "updateIssueTitle" /\ Truthy(interpretation.title)
    THEN "title"
    ELSE "unknown"

\* A command update whose assign branch also resets the status.
commandUpdate_assignResets(issueToUpdate, interpretation, now) ==
    CASE commandBranch(interpretation) = "assign" ->
            [issueToUpdate EXCEPT
                !.assignee = commandAssignee(interpretation.assignee),
                !.status = "To Do",
                !.updatedAt = now]
      [] commandBranch(interpretation) = "status" ->
            [issueToUpdate EXCEPT
                !.status = Get(interpretation.status), !.updatedAt = now]
      [] commandBranch(interpretation) = "priority" ->
            [issueToUpdate EXCEPT
                !.priority = Get(interpretation.priority), !.updatedAt = now]
      [] commandBranch(interpretation) = "description" ->
            [issueToUpdate EXCEPT
                !.description.generalNotes = interpretation.description,
                !.updatedAt = now]
      [] commandBranch(interpretation) = "title" ->
            [issueToUpdate EXCEPT
                !.title = Get(interpretation.title), !.updatedAt = now]

\* A command update whose status branch forgets to refresh updatedAt.
commandUpdate_staleStatus(issueToUpdate, interpretation, now) ==
    CASE commandBranch(interpretation) = "assign" ->
            [issueToUpdate EXCEPT
                !.assignee = commandAssignee(interpretation.assignee),
                !.updatedAt = now]
      [] commandBranch(interpretation) = "status" ->
            [issueToUpdate EXCEPT !.status = Get(interpretation.status)]
      [] commandBranch(interpretation) = "priority" ->
            [issueToUpdate EXCEPT
                !.priority = Get(interpretation.priority), !.updatedAt = now]
      [] commandBranch(interpretation) = "description" ->
            [issueToUpdate EXCEPT
                !.description.generalNotes = interpretation.description,
                !.updatedAt = now]
      [] commandBranch(interpretation) = "title" ->
            [issueToUpdate EXCEPT
                !.title = Get(interpretation.title), !.updatedAt = now]

\* actions.ts:108-131, issueToUpdate after the branch has assigned to it.
commandUpdate(issueToUpdate, interpretation, now) ==
    CASE commandBranch(interpretation) = "assign" ->
            [issueToUpdate EXCEPT
                !.assignee = commandAssignee(interpretation.assignee),
                !.updatedAt = now]
      [] commandBranch(interpretation) = "status" ->
            [issueToUpdate EXCEPT
                !.status = Get(interpretation.status), !.updatedAt = now]
      [] commandBranch(interpretation) = "priority" ->
            [issueToUpdate EXCEPT
                !.priority = Get(interpretation.priority), !.updatedAt = now]
      [] commandBranch(interpretation) = "description" ->
            [issueToUpdate EXCEPT
                !.description.generalNotes = interpretation.description,
                !.updatedAt = now]
      [] commandBranch(interpretation) = "title" ->
            [issueToUpdate EXCEPT
                !.title = Get(interpretation.title), !.updatedAt = now]

\* `interpretation.issueId` as a condition: a non-empty string.
HasIssueId(interpretation) ==
    interpretation.issueId # None /\ interpretation.issueId # Some(<<>>)

\* actions.ts:43-63: the command is validated and the interpreter is called;
\* the call suspends at the await.
processIssueCommandAction(formData) ==
    /\ ops < MaxOps
    /\ ops' = ops + 1
    /\ call' = Call("processIssueCommandAction", formData)
    /\ StoreUnchanged
    /\ UNCHANGED hung
    /\ IF ~zStringMin1(formData.command)
       THEN /\ result' = Result("error",
                    IF formData.command = None THEN "Expected string, received null"
                    ELSE "Command cannot be empty.")
            /\ UNCHANGED inflight
       ELSE /\ result' = Pending
            /\ inflight' = inflight + 1

\* actions.ts:65-100, the createIssue branch.
commandCreate(interpretation) ==
    IF ~Truthy(interpretation.title)
    THEN /\ result' = WithInterpretation(
                Result("error",
                       "Cannot create issue: Title is missing from AI interpretation."),
                interpretation)
         /\ StoreUnchanged
    ELSE LET newIssueId == generateNewIssueId(issuesDB)
         IN  \E createdAt \in ReadClock(clock) : \E updatedAt \in ReadClock(createdAt) :
                /\ issuesDB' = unshift(issuesDB,
                        commandIssue(newIssueId, interpretation, createdAt, updatedAt))
                /\ clock' = updatedAt
                /\ everStored' = everStored \cup {newIssueId}
                /\ result' = WithInterpretation(
                        ResultId("success", "New issue created.", newIssueId),
                        interpretation)
                /\ UNCHANGED assigneesDB

\* A dispatch that assigns the reported status before it validates it.
commandOnIssue_writeThenValidate(interpretation) ==
    LET issueIndex == findIndex(issuesDB, Get(interpretation.issueId))
        branch == commandBranch(interpretation)
    IN  IF issueIndex = 0
        THEN /\ result' = WithInterpretation(Result("error", "Issue not found."),
                                             interpretation)
             /\ StoreUnchanged
        ELSE IF branch = "invalid status"
        THEN /\ issuesDB' = [issuesDB EXCEPT
                    ![issueIndex].status = Get(interpretation.status)]
             /\ result' = WithInterpretation(Result("error", "Invalid status."),
                                             interpretation)
             /\ UNCHANGED <<assigneesDB, clock, everStored>>
        ELSE IF branch \in {"invalid priority", "unknown"}
        THEN /\ result' = WithInterpretation(
                    Result("error",
                           CASE branch = "invalid priority" -> "Invalid priority."
                             [] OTHER -> "Unknown or incomplete action for issue."),
                    interpretation)
             /\ StoreUnchanged
        ELSE \E now \in ReadClock(clock) :
             /\ issuesDB' = [issuesDB EXCEPT
                    ![issueIndex] = commandUpdate(issuesDB[issueIndex], interpretation, now)]
             /\ clock' = now
             /\ result' = WithInterpretation(
                    ResultId("success", "Issue updated based on command.",
                             issuesDB[issueIndex].id),
                    interpretation)
             /\ UNCHANGED <<assigneesDB, everStored>>

\* A refusal that acknowledges an unknown or incomplete action as a success
\* for the issue found.
commandRejected_acknowledged(branch, interpretation) ==
    IF branch = "unknown"
    THEN WithInterpretation(
            ResultId("success", "Command interpreted for issue.",
                     Get(interpretation.issueId)),
            interpretation)
    ELSE WithInterpretation(
            Result("error",
                   CASE branch = "invalid status" -> "Invalid status."
                     [] branch = "invalid priority" -> "Invalid priority."),
            interpretation)

\* actions.ts:113, 119 and 133: the error returned, with the interpretation,
\* for a status or priority outside its enum and for the final else.
commandRejected(branch, interpretation) ==
    WithInterpretation(
        Result("error",
               CASE branch = "invalid status" -> "Invalid status."
                 [] branch = "invalid priority" -> "Invalid priority."
                 [] OTHER -> "Unknown or incomplete action for issue."),
        interpretation)

\* actions.ts:101-142, the branch for an interpretation with an issueId.
commandOnIssue(interpretation) ==
    LET issueIndex == findIndex(issuesDB, Get(interpretation.issueId))
        branch == commandBranch(interpretation)
    IN  IF issueIndex = 0
        THEN /\ result' = WithInterpretation(Result("error", "Issue not found."),
                                             interpretation)
             /\ StoreUnchanged
        ELSE IF branch \in {"invalid status", "invalid priority", "unknown"}
        THEN /\ result' = commandRejected(branch, interpretation)
             /\ StoreUnchanged
        ELSE \E now \in ReadClock(clock) :
             /\ issuesDB' = [issuesDB EXCEPT
                    ![issueIndex] = commandUpdate(issuesDB[issueIndex], interpretation, now)]
             /\ clock' = now
             /\ result' = WithInterpretation(
                    ResultId("success", "Issue updated based on command.",
                             issuesDB[issueIndex].id),
                    interpretation)
             /\ UNCHANGED <<assigneesDB, everStored>>

\* A fallthrough that reports the missing identifier as an error.
commandNoAction_error(interpretation) ==
    /\ result' = WithInterpretation(
            Result("error", "No issue ID was identified."), interpretation)
    /\ StoreUnchanged

\* actions.ts:144-148, neither a createIssue nor an interpretation with an
\* issueId: the interpretation is returned and nothing is written.
commandNoAction(interpretation) ==
    /\ result' = WithInterpretation(
            Result("success", "Command interpreted. No specific database action taken."),
            interpretation)
    /\ StoreUnchanged

\* actions.ts:59-156 from the await on: the interpreter call of a suspended
\* command settles and the command is dispatched.
\* A continuation that calls the interpreter again when the call has failed.
interpreterSettles_retriesOnFailure(outcome) ==
    /\ inflight > 0
    /\ call' = Call("interpreterSettles", outcome)
    /\ UNCHANGED <<ops, hung>>
    /\ LET flow == interpretIssueCommandFlow(outcome)
       IN  IF flow.threw
           THEN /\ inflight' = inflight
                /\ result' = Pending
                /\ StoreUnchanged
           ELSE /\ inflight' = inflight - 1
                /\ IF flow.output.action = "createIssue"
                   THEN commandCreate(flow.output)
                   ELSE IF HasIssueId(flow.output)
                   THEN commandOnIssue(flow.output)
                   ELSE commandNoAction(flow.output)

interpreterSettles(outcome) ==
    /\ inflight > 0
    /\ inflight' = inflight - 1
    /\ call' = Call("interpreterSettles", outcome)
    /\ UNCHANGED <<ops, hung>>
    /\ LET flow == interpretIssueCommandFlow(outcome)
       IN  IF flow.threw
           THEN /\ result' = catchError(flow.error)
                /\ StoreUnchanged
           ELSE IF flow.output.action = "createIssue"
           THEN commandCreate(flow.output)
           ELSE IF HasIssueId(flow.output)
           THEN commandOnIssue(flow.output)
           ELSE commandNoAction(flow.output)

\* actions.ts:60 with interpret-issue-command.ts:104: the promise a
\* suspended command awaits never settles.  Nothing in the action or in the
\* flow races the await against a timer, so the call stays suspended.
interpreterHangs ==
    /\ inflight > 0
    /\ inflight' = inflight - 1
    /\ hung' = hung + 1
    /\ call' = Call("interpreterHangs", <<>>)
    /\ result' = Pending
    /\ StoreUnchanged
    /\ UNCHANGED ops

\* ------------------------------------------------------- deleteIssueAction

\* z.string().min(1) on a character string.
zIdMin1(val) == val # None /\ val # Some(<<>>)

deleteIssueAction(formData) ==
    /\ ops < MaxOps
    /\ ops' = ops + 1
    /\ call' = Call("deleteIssueAction", formData)
    /\ UNCHANGED <<assigneesDB, clock, inflight, hung, everStored>>
    /\ LET issueIndex == findIndex(issuesDB, Get(formData.issueId))
       IN  IF ~zIdMin1(formData.issueId)
           THEN /\ result' = Result("error",
                        IF formData.issueId = None THEN "Expected string, received null"
                        ELSE "Issue ID is required for deletion.")
                /\ UNCHANGED issuesDB
           ELSE IF issueIndex = 0
           THEN /\ result' = Result("error", "Issue not found.")
                /\ UNCHANGED issuesDB
           ELSE /\ issuesDB' = splice(issuesDB, issueIndex)
                /\ result' = Result("success", "Issue deleted successfully.")

\* ------------------------------------------------------------- assignees

\* String.prototype.toLowerCase on the names used here.
toLowerCase(name) ==
    CASE name \in {"Alice Wonderland", "ALICE WONDERLAND"} -> "alice wonderland"
      [] name = "Bob The Builder" -> "bob the builder"
      [] name = "Charlie Brown" -> "charlie brown"
      [] name = "Diana Prince" -> "diana prince"
      [] name = "Edward Scissorhands" -> "edward scissorhands"
      [] name = "Fiona Gallagher" -> "fiona gallagher"
      [] name \in {"Zed", "ZED"} -> "zed"
      [] name = "Yan" -> "yan"
      [] name = "BOB THE BUILDER" -> "bob the builder"
      [] OTHER -> name

\* A lookup that compares the names as written.
indexOfIgnoringCase_exact(names, name) ==
    IF \E i \in DOMAIN names : names[i] = name
    THEN CHOOSE i \in DOMAIN names :
            names[i] = name /\ \A j \in 1..(i - 1) : names[j] # name
    ELSE 0

\* assigneesDB.map(a => a.toLowerCase()).indexOf(name.toLowerCase()), counted
\* from 1; 0 when there is none (-1).
indexOfIgnoringCase(names, name) ==
    IF \E i \in DOMAIN names : toLowerCase(names[i]) = toLowerCase(name)
    THEN CHOOSE i \in DOMAIN names :
            /\ toLowerCase(names[i]) = toLowerCase(name)
            /\ \A j \in 1..(i - 1) : toLowerCase(names[j]) # toLowerCase(name)
    ELSE 0

\* z.string().min(1, ...).max(50, ...).
zAssigneeName(val) == zStringMin1(val) /\ Len(Get(val)) <= 50

addAssigneeAction(formData) ==
    /\ ops < MaxOps
    /\ ops' = ops + 1
    /\ call' = Call("addAssigneeAction", formData)
    /\ UNCHANGED <<issuesDB, clock, inflight, hung, everStored>>
    /\ IF ~zAssigneeName(formData.assigneeName)
       THEN /\ result' = Result("error",
                    IF formData.assigneeName = None THEN "Expected string, received null"
                    ELSE IF formData.assigneeName = Some("")
                    THEN "Assignee name cannot be empty."
                    ELSE "Assignee name too long.")
            /\ UNCHANGED assigneesDB
       ELSE IF indexOfIgnoringCase(assigneesDB, Get(formData.assigneeName)) # 0
       THEN /\ result' = Result("error", "Assignee already exists.")
            /\ UNCHANGED assigneesDB
       ELSE /\ assigneesDB' = Append(assigneesDB, Get(formData.assigneeName))
            /\ result' = Result("success", "Assignee added.")

deleteAssigneeAction(formData) ==
    /\ ops < MaxOps
    /\ ops' = ops + 1
    /\ call' = Call("deleteAssigneeAction", formData)
    /\ UNCHANGED <<issuesDB, clock, inflight, hung, everStored>>
    /\ IF ~zStringMin1(formData.assigneeName)
       THEN /\ result' = Result("error",
                    IF formData.assigneeName = None THEN "Expected string, received null"
                    ELSE "Assignee name is required.")
            /\ UNCHANGED assigneesDB
       ELSE LET index == indexOfIgnoringCase(assigneesDB, Get(formData.assigneeName))
            IN  IF index = 0
                THEN /\ result' = Result("error", "Assignee not found.")
                     /\ UNCHANGED assigneesDB
                ELSE /\ assigneesDB' = splice(assigneesDB, index)
                     /\ result' = Result("success", "Assignee deleted.")

\* ------------------------------------------------------------------ inputs

Id001 == IssueId(<<"0", "0", "1">>)

Id005 == IssueId(<<"0", "0", "5">>)

Id006 == IssueId(<<"0", "0", "6">>)

Id404 == IssueId(<<"4", "0", "4">>)

\* What the create form submits when only the title is filled in.
BaseCreateForm ==
    [title |-> Some("Fix login"), status |-> Some("To Do"), priority |-> Some("Medium"),
     assignee |-> Some(UNASSIGNED_FORM_VALUE),
     description_apiName |-> Some(""), description_method |-> Some(""),
     description_payload |-> Some(""), description_response |-> Some(""),
     description_responseCode |-> Some(<<>>), description_imageDataUri |-> Some(""),
     description_generalNotes |-> Some("")]

CreateForms ==
    {[BaseCreateForm EXCEPT !.assignee = a] :
        a \in {None, Some(""), Some(UNASSIGNED_FORM_VALUE), Some("Zed")}}

\* An edit of an issue that renames it and empties the description; the
\* clear flag is submitted with a value other than "true".
BaseUpdateForm ==
    [id |-> Some(Id001), title |-> Some("Renamed"), status |-> Some("Done"),
     priority |-> Some("Low"), assignee |-> Some(UNASSIGNED_FORM_VALUE),
     description_apiName |-> Some(""), description_method |-> Some(API_METHOD_NA_FORM_VALUE),
     description_payload |-> Some(""), description_response |-> Some(""),
     description_responseCode |-> Some(<<>>), description_imageDataUri |-> Some(""),
     description_imageDataUri_clear |-> Some("false"),
     description_generalNotes |-> Some("")]

UpdateForms ==
    {[BaseUpdateForm EXCEPT !.assignee = a] :
        a \in {Some(""), Some(UNASSIGNED_FORM_VALUE), Some("Bob The Builder")}}
    \cup {[BaseUpdateForm EXCEPT !.id = i] : i \in {Some(Id006), Some(Id404)}}
    \cup {[BaseUpdateForm EXCEPT !.description_imageDataUri_clear = None]}

CommandForms ==
    {[command |-> c, issueIdContext |-> None] :
        c \in {Some(""), Some("Assign SF-001 to Bob The Builder")}}

Interpretation(action, issueId) ==
    [NoInterpretation EXCEPT !.action = action, !.issueId = issueId]

Interpretations ==
    {[Interpretation("createIssue", None) EXCEPT !.title = Some("Fix login"), !.assignee = a] :
        a \in {None, Some("unassigned"), Some("Zed")}}
    \cup {[Interpretation("assignIssue", Some(Id001)) EXCEPT !.assignee = a] :
        a \in {Some("unassigned"), Some("Zed")}}
    \cup {[Interpretation("createIssue", None) EXCEPT !.title = Some(" ")],
          [Interpretation("assignIssue", Some(Id404)) EXCEPT !.assignee = Some("Zed")],
          [Interpretation("updateIssueStatus", Some(Id001)) EXCEPT !.status = Some("Done")],
          [Interpretation("updateIssueStatus", Some(Id001)) EXCEPT !.status = Some("Unknown")],
          [Interpretation("updateIssuePriority", Some(Id001)) EXCEPT !.priority = Some("Low")],
          [Interpretation("updateIssueDescription", Some(Id001)) EXCEPT
                !.description = Some("New notes")],
          [Interpretation("updateIssueTitle", Some(Id006)) EXCEPT !.title = Some("New title")],
          Interpretation("closeIssue", Some(Id001)),
          Interpretation("updateIssueStatus", None)}

InterpreterOutcomes ==
    {[rejected |-> TRUE, output |-> None, error |-> Some("Model call failed")]}
    \cup {[rejected |-> FALSE, output |-> Some(i), error |-> None] : i \in Interpretations}

DeleteForms == {[issueId |-> i] : i \in {Some(Id001), Some(Id005), Some(Id404)}}

AddAssigneeForms == {[assigneeName |-> n] : n \in {Some("Zed"), Some("ALICE WONDERLAND")}}

DeleteAssigneeForms == {[assigneeName |-> n] : n \in {Some("Zed"), Some("Bob The Builder")}}

\* ----------------------------------------------------------- specification

\* The server starts after the dates of the mock data.
Init ==
    /\ issuesDB = initialIssues
    /\ assigneesDB = assignees
    /\ clock = SetMax({initialIssues[i].updatedAt : i \in DOMAIN initialIssues}) + 1
    /\ inflight = 0
    /\ hung = 0
    /\ everStored = IdsOf(initialIssues)
    /\ call = Call("", <<>>)
    /\ result = Result("idle", "")
    /\ ops = 0

UpdateIssue == \E formData \in UpdateForms : updateIssueAction(formData)

CreateIssueDirect == \E formData \in CreateForms : createIssueDirectAction(formData)

ProcessIssueCommand == \E formData \in CommandForms : processIssueCommandAction(formData)

InterpreterSettles == \E outcome \in InterpreterOutcomes : interpreterSettles(outcome)

DeleteIssue == \E formData \in DeleteForms : deleteIssueAction(formData)

AddAssignee == \E formData \in AddAssigneeForms : addAssigneeAction(formData)

DeleteAssignee == \E formData \in DeleteAssigneeForms : deleteAssigneeAction(formData)

Next ==
    \/ UpdateIssue
    \/ CreateIssueDirect
    \/ ProcessIssueCommand
    \/ InterpreterSettles
    \/ DeleteIssue
    \/ AddAssignee
    \/ DeleteAssignee

Spec == Init /\ [][Next]_vars

\* ------------------------------------------- the edit and create forms alone

\* An edit of SF-001 that submits every description field blank.
BlankUpdateForm == BaseUpdateForm

\* An edit of SF-001 that submits a value for every description field.
FilledUpdateForm ==
    [BaseUpdateForm EXCEPT
        !.description_apiName = Some("/v2/login"),
        !.description_method = Some("GET"),
        !.description_payload = Some("{ user }"),
        !.description_response = Some("{ ok }"),
        !.description_responseCode = Some(<<"4", "0", "4">>),
        !.description_imageDataUri = Some("data:image/png;base64,AAAA"),
        !.description_generalNotes = Some("Rewritten notes")]

ResponseCodeInputs ==
    {None, Some(<<" ">>), Some(<<"4", "0", "4">>), Some(<<"4", "x">>), Some(<<"a", "b", "c">>)}

MethodInputs == {Some(""), Some("POST"), Some("TRACE")}

ImageInputs == {None, Some(""), Some("data:image/png;base64,AAAA")}

ClearInputs == {None, Some("true"), Some("false")}

FormUpdateForms ==
    {BlankUpdateForm, FilledUpdateForm,
     [BlankUpdateForm EXCEPT !.id = Some(IssueId(<<"0", "0", "3">>))],
     [FilledUpdateForm EXCEPT !.id = Some(Id006)],
     [BlankUpdateForm EXCEPT !.description_apiName = Some("/v2/login")],
     [BlankUpdateForm EXCEPT !.description_payload = Some("{ user }")],
     [BlankUpdateForm EXCEPT !.description_response = Some("{ ok }")],
     [BlankUpdateForm EXCEPT !.description_generalNotes = Some("Rewritten notes")],
     [BlankUpdateForm EXCEPT !.description_apiName = None],
     [BlankUpdateForm EXCEPT !.status = Some("Unknown")],
     [FilledUpdateForm EXCEPT !.priority = Some("Critical")]}
    \cup {[BlankUpdateForm EXCEPT !.description_responseCode = c] : c \in ResponseCodeInputs}
    \cup {[BlankUpdateForm EXCEPT !.description_method = m] : m \in MethodInputs}
    \cup {[BlankUpdateForm EXCEPT
                !.description_imageDataUri = i, !.description_imageDataUri_clear = c] :
            i \in ImageInputs, c \in ClearInputs}

FormCreateForms ==
    {BaseCreateForm,
     [BaseCreateForm EXCEPT !.description_method = Some(API_METHOD_NA_FORM_VALUE)],
     [BaseCreateForm EXCEPT !.description_method = Some("TRACE")],
     [BaseCreateForm EXCEPT !.status = Some("Unknown")],
     [BaseCreateForm EXCEPT !.priority = Some("Critical"), !.title = Some("")],
     [BaseCreateForm EXCEPT
        !.description_apiName = Some("/v2/login"),
        !.description_method = Some("GET"),
        !.description_responseCode = Some(<<"2", "0", "0">>),
        !.description_imageDataUri = Some("data:image/png;base64,AAAA"),
        !.description_generalNotes = Some("Rewritten notes")]}

FormUpdateIssue == \E formData \in FormUpdateForms : updateIssueAction(formData)

FormCreateIssueDirect == \E formData \in FormCreateForms : createIssueDirectAction(formData)

NextForms == FormUpdateIssue \/ FormCreateIssueDirect

SpecForms == Init /\ [][NextForms]_vars

\* ------------------------------------------------ the assignee registry alone

\* A name longer than the 50 characters addAssigneeSchema allows.
LongName == "Maximilian Bartholomew Featherstonehaugh-Cholmondeley"

AssigneeNamesToAdd ==
    {None, Some(""), Some(LongName), Some("Zed"), Some("ZED"), Some("zed"),
     Some("ALICE WONDERLAND"), Some("alice wonderland"), Some("Bob The Builder"),
     Some("Yan")}

AssigneeNamesToDelete ==
    {None, Some(""), Some("Zed"), Some("zed"), Some("Nobody"),
     Some("Bob The Builder"), Some("bob the builder"), Some("BOB THE BUILDER")}

RegistryAddAssignee ==
    \E n \in AssigneeNamesToAdd : addAssigneeAction([assigneeName |-> n])

RegistryDeleteAssignee ==
    \E n \in AssigneeNamesToDelete : deleteAssigneeAction([assigneeName |-> n])

NextAssignees == RegistryAddAssignee \/ RegistryDeleteAssignee

SpecAssignees == Init /\ [][NextAssignees]_vars

\* ------------------------------------------------------ the command bar alone

\* Stores a command can meet: the initial one and the one left when every
\* issue has been deleted.
CommandStores == {initialIssues, <<>>}

\* createIssue outputs: status, priority and assignee omitted, inside and
\* outside their enums; titles present, blank and missing.
CreateInterpretations ==
    {[Interpretation("createIssue", None) EXCEPT
            !.title = Some("Fix login"), !.status = spa[1], !.priority = spa[2],
            !.assignee = spa[3]] :
        spa \in {<<None, None, None>>, <<Some("Done"), Some("High"), None>>,
                 <<Some("Unknown"), Some("Unknown"), Some("unassigned")>>}}
    \cup {[Interpretation("createIssue", None) EXCEPT
                !.title = Some("Fix login"), !.assignee = Some("Zed"),
                !.description = Some("Notes")],
          [Interpretation("createIssue", None) EXCEPT !.title = Some(" ")],
          [Interpretation("createIssue", None) EXCEPT !.title = Some("")],
          Interpretation("createIssue", None)}

\* The five intents on an issue, each with the field it requires.
CompleteInterpretation(issueId) ==
    {[Interpretation("assignIssue", issueId) EXCEPT !.assignee = Some("Zed")],
     [Interpretation("updateIssueStatus", issueId) EXCEPT !.status = Some("Done")],
     [Interpretation("updateIssuePriority", issueId) EXCEPT !.priority = Some("Low")],
     [Interpretation("updateIssueDescription", issueId) EXCEPT !.description = Some("")],
     [Interpretation("updateIssueTitle", issueId) EXCEPT !.title = Some("New title")]}

\* The five intents with the required field missing.
IncompleteInterpretation(issueId) ==
    {Interpretation(action, issueId) :
        action \in {"assignIssue", "updateIssueStatus", "updateIssuePriority",
                    "updateIssueDescription", "updateIssueTitle"}}
    \cup {[Interpretation("assignIssue", issueId) EXCEPT !.assignee = Some("")]}

CommandInterpretations ==
    CreateInterpretations
    \cup CompleteInterpretation(Some(Id001))
    \cup CompleteInterpretation(None)
    \cup IncompleteInterpretation(Some(Id001))
    \cup {Interpretation("updateIssueStatus", None),
          [Interpretation("updateIssueStatus", Some(<<>>)) EXCEPT !.status = Some("Done")],
          [Interpretation("updateIssueTitle", Some(Id404)) EXCEPT !.title = Some("New title")],
          Interpretation("updateIssueTitle", Some(Id404)),
          Interpretation("closeIssue", Some(Id001)),
          Interpretation("closeIssue", Some(Id404)),
          Interpretation("closeIssue", None)}

CommandOutcomes ==
    {[rejected |-> TRUE, output |-> None, error |-> e] :
        e \in {None, Some("Model call failed")}}
    \cup {[rejected |-> FALSE, output |-> None, error |-> None]}
    \cup {[rejected |-> FALSE, output |-> Some(i), error |-> None] :
            i \in CommandInterpretations}

InitCommands ==
    /\ issuesDB \in CommandStores
    /\ assigneesDB = assignees
    /\ clock = SetMax({initialIssues[i].updatedAt : i \in DOMAIN initialIssues}) + 1
    /\ inflight = 0
    /\ hung = 0
    /\ everStored = IdsOf(initialIssues)
    /\ call = Call("", <<>>)
    /\ result = Result("idle", "")
    /\ ops = 0

CommandInterpreterSettles == \E outcome \in CommandOutcomes : interpreterSettles(outcome)

NextCommands == ProcessIssueCommand \/ CommandInterpreterSettles

SpecCommands == InitCommands /\ [][NextCommands]_vars

\* ------------------------------------------------------ identifier minting

\* Stores for generateNewIssueId: the records of the mock data under other
\* identifiers, well formed (three digits, more digits, leading zeros) and
\* not (another prefix, lower case, a letter after the digits, no digits).
IdLists ==
    {<<>>,
     <<IssueId(<<"0", "0", "1">>), IssueId(<<"0", "0", "2">>), IssueId(<<"0", "0", "3">>)>>,
     <<IssueId(<<"0", "0", "3">>), IssueId(<<"0", "0", "1">>)>>,
     <<IssueId(<<"0", "0", "9">>)>>,
     <<IssueId(<<"0", "9", "9">>), <<"B", "U", "G", "-", "7">>>>,
     <<IssueId(<<"9", "9", "9">>)>>,
     <<IssueId(<<"1", "0", "0", "0">>), IssueId(<<"0", "0", "2">>)>>,
     <<IssueId(<<"0", "0", "0", "7">>)>>,
     <<IssueId(<<"5">>)>>,
     <<<<"B", "U", "G", "-", "7">>>>,
     <<<<"s", "f", "-", "0", "0", "2">>>>,
     <<IssueId(<<"1", "2", "a">>)>>,
     <<IssueId(<<"0", "0", "2">>), IssueId(<<"1", "2", "a">>), IssueId(<<>>)>>,
     <<<<" ", "S", "F", "-", "0", "0", "8">>, IssueId(<<"0", "0", "4", " ">>)>>}

IdStore(ids) == [i \in DOMAIN ids |-> [initialIssues[1] EXCEPT !.id = ids[i]]]

InitIds ==
    /\ issuesDB \in {IdStore(ids) : ids \in IdLists}
    /\ assigneesDB = assignees
    /\ clock = SetMax({initialIssues[i].updatedAt : i \in DOMAIN initialIssues}) + 1
    /\ inflight = 0
    /\ hung = 0
    /\ everStored = IdsOf(issuesDB)
    /\ call = Call("", <<>>)
    /\ result = Result("idle", "")
    /\ ops = 0

IdsCreateIssueDirect == createIssueDirectAction(BaseCreateForm)

IdsCreateByCommand ==
    \/ processIssueCommandAction(
            [command |-> Some("Create a task Fix login"), issueIdContext |-> None])
    \/ interpreterSettles(
            [rejected |-> FALSE, error |-> None,
             output |-> Some([Interpretation("createIssue", None) EXCEPT
                                !.title = Some("Fix login")])])

NextIds == IdsCreateIssueDirect \/ IdsCreateByCommand

SpecIds == InitIds /\ [][NextIds]_vars

\* ------------------------------------------- submissions during one command

\* One command has been submitted and waits for the interpreter (the state
\* after its processIssueCommandAction step from Init); the calls counted by
\* ops are those made while it waits or after it, and the interpreter may
\* read any intent into it.
OverlapCommandForm == [command |-> Some("Create a task Fix login"), issueIdContext |-> None]

InitOverlap ==
    /\ issuesDB = initialIssues
    /\ assigneesDB = assignees
    /\ clock = SetMax({initialIssues[i].updatedAt : i \in DOMAIN initialIssues}) + 1
    /\ inflight = 1
    /\ hung = 0
    /\ everStored = IdsOf(initialIssues)
    /\ call = Call("processIssueCommandAction", OverlapCommandForm)
    /\ result = Pending
    /\ ops = 0

OverlapDeleteIssue ==
    \E i \in {Id001, Id005, Id006} : deleteIssueAction([issueId |-> Some(i)])

OverlapInterpreterSettles ==
    \E outcome \in InterpreterOutcomes : interpreterSettles(outcome)

OverlapCreateIssueDirect == createIssueDirectAction(BaseCreateForm)

NextOverlap ==
    \/ OverlapCreateIssueDirect
    \/ UpdateIssue
    \/ OverlapDeleteIssue
    \/ OverlapInterpreterSettles

SpecOverlap == InitOverlap /\ [][NextOverlap]_vars

\* ------------------------------------------------ title, status and priority

\* Submissions that offer every entry point a title, a status and a priority
\* it may store and ones it may not: empty, missing, outside the enum.
FieldsUpdateForms ==
    {BaseUpdateForm}
    \cup {[BaseUpdateForm EXCEPT !.title = t] : t \in {None, Some("")}}
    \cup {[BaseUpdateForm EXCEPT !.status = s] : s \in {None, Some(""), Some("Unknown")}}
    \cup {[BaseUpdateForm EXCEPT !.priority = p] : p \in {Some("Unknown"), Some("Urgent")}}

FieldsCreateForms ==
    {BaseCreateForm}
    \cup {[BaseCreateForm EXCEPT !.title = t] : t \in {None, Some("")}}
    \cup {[BaseCreateForm EXCEPT !.status = Some("Unknown")],
          [BaseCreateForm EXCEPT !.priority = Some("")]}

FieldsInterpretations ==
    {[Interpretation("updateIssueStatus", i) EXCEPT !.status = s] :
        i \in {Some(Id001), None}, s \in {Some("Done"), Some("Unknown")}}
    \cup {[Interpretation("updateIssuePriority", Some(Id001)) EXCEPT !.priority = p] :
        p \in {Some("Low"), Some("Unknown"), Some("")}}
    \cup {[Interpretation("updateIssueTitle", Some(Id001)) EXCEPT !.title = t] :
        t \in {Some("New title"), Some(""), None}}
    \cup {[Interpretation("createIssue", None) EXCEPT
                !.title = t, !.status = Some("Unknown"), !.priority = Some("")] :
        t \in {Some("Fix login"), Some("")}}

FieldsUpdateIssue == \E formData \in FieldsUpdateForms : updateIssueAction(formData)

FieldsCreateIssueDirect ==
    \E formData \in FieldsCreateForms : createIssueDirectAction(formData)

FieldsInterpreterSettles ==
    \E i \in FieldsInterpretations :
        interpreterSettles([rejected |-> FALSE, output |-> Some(i), error |-> None])

NextFields ==
    \/ FieldsUpdateIssue
    \/ FieldsCreateIssueDirect
    \/ ProcessIssueCommand
    \/ FieldsInterpreterSettles

SpecFields == Init /\ [][NextFields]_vars

\* ------------------------------------------------- commands that must return

InterpreterHangs == interpreterHangs

NextLive == ProcessIssueCommand \/ InterpreterSettles \/ InterpreterHangs

\* The continuation of an await runs once its promise has settled; a promise
\* that never settles is the step InterpreterHangs.
SpecLive == Init /\ [][NextLive]_vars /\ WF_vars(InterpreterSettles)

\* ------------------------------------------------------------ observations

\* The issue with the given identifier.
IssueById(issues, id) == issues[findIndex(issues, id)]

\* The last step was a form create that succeeded.
DirectCreated == call.fn = "createIssueDirectAction" /\ result.status = "success"

\* The last step was a createIssue command that succeeded.
CommandCreated == call.fn = "interpreterSettles" /\ result.message = "New issue created."

Created == DirectCreated \/ CommandCreated

\* The last step was an updateIssueAction that succeeded.
FormUpdated == call.fn = "updateIssueAction" /\ result.status = "success"

\* The last step was a command that updated an existing issue.
CommandUpdated ==
    call.fn = "interpreterSettles" /\ result.message = "Issue updated based on command."

\* ------------------------------------------------------------------ claims

\* C1: the identifier minted by a create (form or command) is never the
\* identifier of a record that was in the store before, deleted ones included.
C1_MintedIdIsFresh == [][Created' => Get(result'.id) \notin everStored]_vars

\* C2: in every reachable state no two records of the store have the same
\* identifier.
C2_IdsDistinct ==
    \A i, j \in DOMAIN issuesDB : i # j => issuesDB[i].id # issuesDB[j].id

\* C2 witness: two creates have added two records to the initial store.
C2_Witness == Created /\ Len(issuesDB) = Len(initialIssues) + 2

\* C3 as stated: a successful updateIssueAction keeps the stored value of
\* every description field (other than the image) that is submitted blank or
\* not submitted.
C3_BlankFieldKeepsStored ==
    [][FormUpdated' =>
        LET data == call'.arg
            old == IssueById(issuesDB, Get(data.id)).description
            new == IssueById(issuesDB', Get(data.id)).description
        IN  /\ ~Truthy(data.description_apiName) => new.apiName = old.apiName
            /\ ~Truthy(data.description_method) => new.method = old.method
            /\ ~Truthy(data.description_payload) => new.payload = old.payload
            /\ ~Truthy(data.description_response) => new.response = old.response
            /\ (\/ data.description_responseCode = None
                \/ IsBlank(Get(data.description_responseCode)))
                    => new.responseCode = old.responseCode
            /\ ~Truthy(data.description_generalNotes)
                    => new.generalNotes = old.generalNotes]_vars

\* C3 amended: a successful updateIssueAction rebuilds the six description
\* fields from the submission alone: a text field becomes the submitted text,
\* or absent when that is blank; method becomes the submitted value when it
\* is a member of the enum and absent otherwise; responseCode becomes the
\* integer read from the submitted text, or absent when that is blank or not
\* submitted.  No stored value of these fields survives.
C3_DescriptionRebuilt ==
    [][FormUpdated' =>
        LET data == call'.arg
            new == IssueById(issuesDB', Get(data.id)).description
            text(val) == IF val = Some("") THEN None ELSE val
        IN  /\ new.apiName = text(data.description_apiName)
            /\ new.payload = text(data.description_payload)
            /\ new.response = text(data.description_response)
            /\ new.generalNotes = text(data.description_generalNotes)
            /\ new.method = IF \E m \in apiMethods : data.description_method = Some(m)
                            THEN data.description_method ELSE None
            /\ new.responseCode =
                    IF \/ data.description_responseCode = None
                       \/ IsBlank(Get(data.description_responseCode))
                    THEN None
                    ELSE parseInt(Get(data.description_responseCode))]_vars

\* C3 witness: an update that submitted apiName blank has succeeded on SF-001,
\* whose stored apiName was "/auth/login", and the apiName is now absent.
C3_Witness ==
    /\ FormUpdated
    /\ call.arg.id = Some(Id001)
    /\ call.arg.description_apiName = Some("")
    /\ call.arg.description_generalNotes = Some("Rewritten notes")
    /\ IssueById(issuesDB, Id001).description.apiName = None
    /\ IssueById(issuesDB, Id001).description.generalNotes = Some("Rewritten notes")

\* C4: an updateIssueAction for an existing record that submits neither
\* description_imageDataUri nor description_imageDataUri_clear and is valid
\* otherwise succeeds and leaves the stored image reference as it was.
C4_NoImageFieldsKeepsImage ==
    [][(/\ call'.fn = "updateIssueAction"
        /\ call'.arg.description_imageDataUri = None
        /\ call'.arg.description_imageDataUri_clear = None
        /\ updateIssueSchema(call'.arg)
                \subseteq {"description_imageDataUri", "description_imageDataUri_clear"}
        /\ findIndex(issuesDB, Get(call'.arg.id)) # 0)
       => /\ result'.status = "success"
          /\ IssueById(issuesDB', Get(call'.arg.id)).description.imageDataUri
                = IssueById(issuesDB, Get(call'.arg.id)).description.imageDataUri]_vars

\* C5: after a successful updateIssueAction the stored image reference is
\* absent when the clear flag is "true", whatever image is submitted with it,
\* and otherwise is the submitted image when one is submitted.
C5_ImageAfterUpdate ==
    [][FormUpdated' =>
        LET data == call'.arg
            image == IssueById(issuesDB', Get(data.id)).description.imageDataUri
        IN  /\ data.description_imageDataUri_clear = Some("true") => image = None
            /\ (/\ data.description_imageDataUri_clear # Some("true")
                /\ Truthy(data.description_imageDataUri))
                    => image = data.description_imageDataUri]_vars

\* C5 witness: an update with the clear flag and an image submitted together
\* has succeeded on SF-001, and the image is absent.
C5_Witness ==
    /\ FormUpdated
    /\ call.arg.id = Some(Id001)
    /\ call.arg.description_imageDataUri_clear = Some("true")
    /\ Truthy(call.arg.description_imageDataUri)
    /\ IssueById(issuesDB, Id001).description.imageDataUri = None

\* C6: the assignee of every stored record is absent or a name of the
\* assignee registry.
C6_AssigneeInRegistry ==
    \A i \in DOMAIN issuesDB :
        issuesDB[i].assignee = None
        \/ \E k \in DOMAIN assigneesDB : issuesDB[i].assignee = Some(assigneesDB[k])

\* C7: no stored record has the empty string or a placeholder literal
\* ("_SELECT_UNASSIGNED_", "unassigned") as its assignee.
C7_NoPlaceholderAssignee ==
    \A i \in DOMAIN issuesDB :
        issuesDB[i].assignee
            \notin {Some(""), Some(UNASSIGNED_FORM_VALUE), Some("unassigned")}

\* C8: the description method of every stored record is absent or a member of
\* the API-method enum.
C8_MethodInEnum ==
    \A i \in DOMAIN issuesDB :
        issuesDB[i].description.method = None
        \/ \E m \in apiMethods : issuesDB[i].description.method = Some(m)

\* C8 witness: a form create or update that submitted a method outside the enum
\* has succeeded, and the record it wrote has no method.
C8_Witness ==
    /\ DirectCreated \/ FormUpdated
    /\ call.arg.description_method = Some("TRACE")
    /\ IssueById(issuesDB, Get(result.id)).description.method = None

\* C9: every successful mutation of a record (form update or command update)
\* sets its updatedAt to the clock reading of the mutation, and every stored
\* record has updatedAt >= createdAt.
C9_UpdatedAtRefreshed ==
    /\ [](\A i \in DOMAIN issuesDB : issuesDB[i].updatedAt >= issuesDB[i].createdAt)
    /\ [][(FormUpdated' \/ CommandUpdated')
            => IssueById(issuesDB', Get(result'.id)).updatedAt = clock']_vars

\* C9 witness: a status command has succeeded on SF-001 and its updatedAt is
\* the reading just made, later than its createdAt.
C9_Witness ==
    /\ CommandUpdated
    /\ Get(result.interpretation).action = "updateIssueStatus"
    /\ IssueById(issuesDB, Id001).status = "Done"
    /\ IssueById(issuesDB, Id001).updatedAt = clock
    /\ IssueById(issuesDB, Id001).updatedAt > IssueById(issuesDB, Id001).createdAt

\* C10: a record created by createIssueDirectAction or by a createIssue
\* command has createdAt equal to updatedAt when it is inserted.
C10_CreatedEqualsUpdated ==
    Created => IssueById(issuesDB, Get(result.id)).createdAt
                    = IssueById(issuesDB, Get(result.id)).updatedAt

\* C11: a successful create (form or command) puts the new record first,
\* keeps the records stored before behind it in their order and unchanged,
\* grows the store by exactly one, and returns the new record's identifier.
C11_CreateInsertsAtHead ==
    [][Created' =>
        /\ Len(issuesDB') = Len(issuesDB) + 1
        /\ issuesDB'[1].id = Get(result'.id)
        /\ Tail(issuesDB') = issuesDB]_vars

\* C11 witness: a create has returned SF-006 and that record is at the head
\* of the store, in front of SF-001.
C11_Witness ==
    /\ Created
    /\ result.id = Some(Id006)
    /\ Len(issuesDB) = Len(initialIssues) + 1
    /\ issuesDB[1].id = Id006
    /\ Tail(issuesDB) = initialIssues

\* C12: a successful update of record X (form update or command update)
\* keeps the number of records, the identifier at every position, and every
\* record other than X as it was.
C12_UpdateInPlace ==
    [][(FormUpdated' \/ CommandUpdated') =>
        /\ Len(issuesDB') = Len(issuesDB)
        /\ \A i \in DOMAIN issuesDB :
                /\ issuesDB'[i].id = issuesDB[i].id
                /\ issuesDB[i].id # Get(result'.id) => issuesDB'[i] = issuesDB[i]]_vars

\* C12 witness: SF-001, second in the store behind a newly created record,
\* has been renamed by a form update and is still second.
C12_Witness ==
    /\ FormUpdated
    /\ result.id = Some(Id001)
    /\ Len(issuesDB) = Len(initialIssues) + 1
    /\ issuesDB[1].id = Id006
    /\ issuesDB[2].id = Id001
    /\ issuesDB[2].title = "Renamed"

\* C13: deleteIssueAction with an identifier that is not stored returns an
\* error and leaves the store as it was; with a stored identifier it removes
\* that record only and keeps the others and their order.
C13_DeleteExactlyOne ==
    [][(call'.fn = "deleteIssueAction" /\ zIdMin1(call'.arg.issueId)) =>
        LET issueId == Get(call'.arg.issueId)
        IN  IF issueId \in IdsOf(issuesDB)
            THEN /\ result'.status = "success"
                 /\ Len(issuesDB') = Len(issuesDB) - 1
                 /\ issuesDB' = SelectSeq(issuesDB, LAMBDA issue : issue.id # issueId)
            ELSE /\ result'.status = "error"
                 /\ issuesDB' = issuesDB]_vars

\* C13 witness: SF-001 has been deleted and the other four records remain in
\* their order.
C13_Witness ==
    /\ call.fn = "deleteIssueAction"
    /\ call.arg.issueId = Some(Id001)
    /\ result.status = "success"
    /\ issuesDB = Tail(initialIssues)

C15_InterpreterFailureIsError ==
    [][call'.fn = "interpreterSettles" =>
        LET outcome == call'.arg
            noOutput == ~outcome.rejected /\ outcome.output = None
            noTitle == /\ ~outcome.rejected /\ outcome.output # None
                       /\ Get(outcome.output).action = "createIssue"
                       /\ Get(outcome.output).title \in {None, Some(""), Some(" ")}
        IN  (outcome.rejected \/ noOutput \/ noTitle) =>
                /\ result'.status = "error"
                /\ result'.interpretation = None
                /\ result'.id = None
                /\ outcome.rejected /\ outcome.error # None
                        => result'.message = Get(outcome.error)
                /\ outcome.rejected /\ outcome.error = None
                        => result'.message = "Failed to process command. Please try again."
                /\ noOutput => result'.message =
                        "AI interpretation failed to produce a valid output based on the schema."
                /\ noTitle => result'.message =
                        "AI interpretation failed: Title is missing for 'createIssue' action."
                /\ UNCHANGED <<issuesDB, assigneesDB>>]_vars

\* C15 witness: the interpreter produced a createIssue output with a blank
\* title, and the command has returned the flow's error.
C15_Witness ==
    /\ call.fn = "interpreterSettles"
    /\ ~call.arg.rejected
    /\ call.arg.output = Some([Interpretation("createIssue", None) EXCEPT !.title = Some(" ")])
    /\ result.status = "error"
    /\ result.message = "AI interpretation failed: Title is missing for 'createIssue' action."

\* The six intents the dispatch knows.
C16_KnownIntents ==
    {"createIssue", "assignIssue", "updateIssueStatus", "updateIssuePriority",
     "updateIssueDescription", "updateIssueTitle"}

\* The last step settled a command whose interpretation has an intent
\* outside the known ones and the identifier of a stored record.
C16_UnknownIntentOnStored ==
    /\ call'.fn = "interpreterSettles"
    /\ ~call'.arg.rejected
    /\ call'.arg.output # None
    /\ Get(call'.arg.output).action \notin C16_KnownIntents
    /\ Get(call'.arg.output).issueId \notin {None, Some(<<>>)}
    /\ Get(Get(call'.arg.output).issueId) \in IdsOf(issuesDB)

C17_NoIdNoAction ==
    [][(/\ call'.fn = "interpreterSettles"
        /\ ~call'.arg.rejected
        /\ call'.arg.output # None
        /\ Get(call'.arg.output).action # "createIssue"
        /\ Get(call'.arg.output).issueId \in {None, Some(<<>>)})
       => /\ result'.status = "success"
          /\ result'.interpretation = call'.arg.output
          /\ result'.id = None
          /\ UNCHANGED <<issuesDB, assigneesDB>>]_vars

\* C17 witness: a status update with a status and no issueId has returned
\* success and the store is the initial one.
C17_Witness ==
    /\ call.fn = "interpreterSettles"
    /\ call.arg.output =
            Some([Interpretation("updateIssueStatus", None) EXCEPT !.status = Some("Done")])
    /\ result.status = "success"
    /\ result.id = None
    /\ issuesDB = initialIssues

\* The interpretation settled in the last step has one of the five intents
\* that act on an existing issue.
C18_UpdateIntent ==
    /\ call'.fn = "interpreterSettles"
    /\ ~call'.arg.rejected
    /\ call'.arg.output # None
    /\ Get(call'.arg.output).action \in C16_KnownIntents \ {"createIssue"}

\* That interpretation has no target identifier.
C18_LacksId == Get(call'.arg.output).issueId \in {None, Some(<<>>)}

\* That interpretation has no value for the field its intent requires.
C18_LacksField ==
    LET interpretation == Get(call'.arg.output)
    IN  CASE interpretation.action = "assignIssue" ->
                interpretation.assignee \in {None, Some("")}
          [] interpretation.action = "updateIssueStatus" ->
                interpretation.status \in {None, Some("")}
          [] interpretation.action = "updateIssuePriority" ->
                interpretation.priority \in {None, Some("")}
          [] interpretation.action = "updateIssueTitle" ->
                interpretation.title \in {None, Some("")}
          [] interpretation.action = "updateIssueDescription" ->
                interpretation.description = None

\* C18 as stated: for the five intents on an existing issue, an
\* interpretation without the target identifier or without the required field
\* gives status 'error' and no write.
C18_MissingIdOrFieldIsError ==
    [][(C18_UpdateIntent /\ (C18_LacksId \/ C18_LacksField)) =>
        /\ result'.status = "error"
        /\ UNCHANGED <<issuesDB, assigneesDB>>]_vars

\* C18 amended: for the five intents, an interpretation that names a target
\* identifier but has no value for the required field gives status 'error'
\* and no write; an interpretation without a target identifier gives status
\* 'success' with the interpretation, no identifier, and no write.
C18_MissingFieldIsError ==
    [][C18_UpdateIntent =>
        /\ (~C18_LacksId /\ C18_LacksField) =>
                /\ result'.status = "error"
                /\ result'.interpretation = call'.arg.output
                /\ UNCHANGED <<issuesDB, assigneesDB>>
        /\ C18_LacksId =>
                /\ result'.status = "success"
                /\ result'.interpretation = call'.arg.output
                /\ result'.id = None
                /\ UNCHANGED <<issuesDB, assigneesDB>>]_vars

\* C18 witness: an assignIssue for the stored SF-001 without an assignee has
\* been refused and SF-001 still has its assignee.
C18_Witness ==
    /\ call.fn = "interpreterSettles"
    /\ call.arg.output = Some(Interpretation("assignIssue", Some(Id001)))
    /\ result.status = "error"
    /\ Id001 \in IdsOf(issuesDB)
    /\ IssueById(issuesDB, Id001).assignee = initialIssues[1].assignee

\* The record a createIssue command must have put at the head of the store:
\* status and priority as reported when they are members of their enums and
\* the defaults otherwise, no assignee when none or "unassigned" is reported,
\* and the identifier SF-001 when the store was empty.
C19_CreatedWithDefaults ==
    LET interpretation == Get(call'.arg.output)
        new == issuesDB'[1]
    IN  /\ result'.status = "success"
        /\ Len(issuesDB') = Len(issuesDB) + 1
        /\ result'.id = Some(new.id)
        /\ new.title = Get(interpretation.title)
        /\ new.status = IF \E v \in issueStatuses : interpretation.status = Some(v)
                        THEN Get(interpretation.status) ELSE "To Do"
        /\ new.priority = IF \E v \in issuePriorities : interpretation.priority = Some(v)
                          THEN Get(interpretation.priority) ELSE "Medium"
        /\ interpretation.assignee \in {None, Some("unassigned")} => new.assignee = None
        /\ issuesDB = <<>> => new.id = Id001

\* The interpreter has returned a createIssue output in the last step.
C19_CreateIntent ==
    /\ call'.fn = "interpreterSettles"
    /\ ~call'.arg.rejected
    /\ call'.arg.output # None
    /\ Get(call'.arg.output).action = "createIssue"

\* C19 as stated: a createIssue command with a non-empty title always creates
\* a record, with the defaults for a status or priority that is omitted or
\* outside its enum, no assignee for an omitted or "unassigned" one, and the
\* identifier SF-001 on an empty store.
C19_NonEmptyTitleCreates ==
    [][(C19_CreateIntent /\ Get(call'.arg.output).title \notin {None, Some("")})
            => C19_CreatedWithDefaults]_vars

\* C19 amended: the same for a title that is not blank, that is, non-empty
\* after trimming.
C19_NonBlankTitleCreates ==
    [][(C19_CreateIntent /\ Get(call'.arg.output).title \notin {None, Some(""), Some(" ")})
            => C19_CreatedWithDefaults]_vars

\* C19 witness: on the empty store a createIssue with a status and priority
\* outside the enums and the assignee "unassigned" has created SF-001 with
\* the defaults and no assignee.
C19_Witness ==
    /\ CommandCreated
    /\ Get(call.arg.output).status = Some("Unknown")
    /\ Get(call.arg.output).priority = Some("Unknown")
    /\ Get(call.arg.output).assignee = Some("unassigned")
    /\ Len(issuesDB) = 1
    /\ issuesDB[1].id = Id001
    /\ issuesDB[1].status = "To Do"
    /\ issuesDB[1].priority = "Medium"
    /\ issuesDB[1].assignee = None

\* C20: createIssueDirectAction and updateIssueAction with a status or a
\* priority outside its enum return a validation failure that names the
\* offending field, and the stores are left as they were (no default is
\* substituted; nothing is written).
C20_EnumFieldsValidated ==
    [][call'.fn \in {"createIssueDirectAction", "updateIssueAction"} =>
        LET data == call'.arg
            badStatus == \A v \in issueStatuses : data.status # Some(v)
            badPriority == \A v \in issuePriorities : data.priority # Some(v)
        IN  (badStatus \/ badPriority) =>
                /\ result'.status = "error"
                /\ result'.message = "Validation failed"
                /\ badStatus => "status" \in result'.fields
                /\ badPriority => "priority" \in result'.fields
                /\ UNCHANGED <<issuesDB, assigneesDB>>]_vars

\* C20 witness: an update of SF-001 with the priority "Critical" has been
\* refused with a failure naming priority, and SF-001 keeps its priority.
C20_Witness ==
    /\ call.fn = "updateIssueAction"
    /\ call.arg.id = Some(Id001)
    /\ call.arg.priority = Some("Critical")
    /\ result.status = "error"
    /\ "priority" \in result.fields
    /\ IssueById(issuesDB, Id001).priority = initialIssues[1].priority

\* C21: a successful updateIssueStatus, updateIssuePriority, assignIssue or
\* updateIssueTitle command changes, in the record it names, only the field
\* it names and updatedAt; assigning to "unassigned" makes the assignee
\* absent.
C21_CommandChangesOneField ==
    [][(/\ CommandUpdated'
        /\ Get(call'.arg.output).action \in
                {"updateIssueStatus", "updateIssuePriority", "assignIssue",
                 "updateIssueTitle"}) =>
        LET interpretation == Get(call'.arg.output)
            old == IssueById(issuesDB, Get(interpretation.issueId))
            new == IssueById(issuesDB', Get(interpretation.issueId))
            kept == [old EXCEPT !.updatedAt = new.updatedAt]
        IN  CASE interpretation.action = "updateIssueStatus" ->
                    new = [kept EXCEPT !.status = Get(interpretation.status)]
              [] interpretation.action = "updateIssuePriority" ->
                    new = [kept EXCEPT !.priority = Get(interpretation.priority)]
              [] interpretation.action = "updateIssueTitle" ->
                    new = [kept EXCEPT !.title = Get(interpretation.title)]
              [] interpretation.action = "assignIssue" ->
                    new = [kept EXCEPT !.assignee =
                                IF interpretation.assignee = Some("unassigned")
                                THEN None ELSE interpretation.assignee]]_vars

\* C21 witness: SF-001 has been assigned to "unassigned" by a command: its
\* assignee is absent and its status, priority and description are the
\* stored ones.
C21_Witness ==
    /\ CommandUpdated
    /\ Get(call.arg.output).action = "assignIssue"
    /\ Get(call.arg.output).assignee = Some("unassigned")
    /\ IssueById(issuesDB, Id001).assignee = None
    /\ IssueById(issuesDB, Id001).status = initialIssues[1].status
    /\ IssueById(issuesDB, Id001).priority = initialIssues[1].priority
    /\ IssueById(issuesDB, Id001).description = initialIssues[1].description

\* C22: the registry never holds two names that are equal ignoring case;
\* adding a name that matches a registered one ignoring case returns the
\* already-exists error and changes nothing; deleting a name that matches
\* none ignoring case returns the not-found error and changes nothing.
C22_RegistryUniqueIgnoringCase ==
    /\ [](\A i, j \in DOMAIN assigneesDB :
            i # j => toLowerCase(assigneesDB[i]) # toLowerCase(assigneesDB[j]))
    /\ [][(/\ call'.fn \in {"addAssigneeAction", "deleteAssigneeAction"}
           /\ call'.arg.assigneeName \notin {None, Some(""), Some(LongName)}) =>
            LET name == Get(call'.arg.assigneeName)
                registered == \E i \in DOMAIN assigneesDB :
                                toLowerCase(assigneesDB[i]) = toLowerCase(name)
            IN  /\ (call'.fn = "addAssigneeAction" /\ registered) =>
                        /\ result'.status = "error"
                        /\ result'.message = "Assignee already exists."
                        /\ assigneesDB' = assigneesDB
                /\ (call'.fn = "deleteAssigneeAction" /\ ~registered) =>
                        /\ result'.status = "error"
                        /\ result'.message = "Assignee not found."
                        /\ assigneesDB' = assigneesDB]_vars

\* C22 witness: with "Zed" added to the registry, adding "ZED" has been
\* refused and the registry holds the one "Zed".
C22_Witness ==
    /\ call.fn = "addAssigneeAction"
    /\ call.arg.assigneeName = Some("ZED")
    /\ result.message = "Assignee already exists."
    /\ assigneesDB = Append(assignees, "Zed")

\* C23: every processIssueCommandAction call eventually returns: whenever a
\* call is suspended at the interpreter, also one whose interpreter never
\* settles, a state follows in which no call is suspended.
C23_EveryCommandReturns == (inflight + hung > 0) ~> (inflight + hung = 0)

\* C24: the record created by a createIssue command has every description
\* field absent unless the interpreter supplied it: generalNotes is what the
\* interpreter gave as description, absent when it gave none, and the other
\* description fields are absent.
C24_DescriptionAbsentUnlessGiven ==
    CommandCreated =>
        issuesDB[1].description =
            [NoDescription EXCEPT !.generalNotes = Get(call.arg.output).description]

\* The numbers written as SF-<digits> by the identifiers of a store, found by
\* writing every number up to C25_MaxSuffix in every width up to C25_MaxWidth.
C25_MaxSuffix == 1100

C25_MaxWidth == 4

C25_Written ==
    [n \in 0..C25_MaxSuffix |->
        {SF \o padStart(NumToString(n), w, "0") : w \in 1..C25_MaxWidth}]

C25_NumberOf ==
    [id \in UNION {C25_Written[n] : n \in 0..C25_MaxSuffix} |->
        CHOOSE n \in 0..C25_MaxSuffix : id \in C25_Written[n]]

C25_Suffixes(issues) ==
    {C25_NumberOf[id] : id \in IdsOf(issues) \cap DOMAIN C25_NumberOf}

C25_Expected(issues) ==
    LET m == IF C25_Suffixes(issues) = {} THEN 0 ELSE SetMax(C25_Suffixes(issues))
    IN  SF \o padStart(NumToString(m + 1), 3, "0")

\* C25: a create always succeeds with the identifier "SF-" followed by m + 1
\* padded with zeros to at least three digits, m being the largest number
\* written by an identifier of the form SF-<digits> in the store and 0 when
\* there is none; identifiers of any other form are ignored, and the store
\* holding exactly SF-001..SF-003 yields SF-004.
C25_NextIdFromLargestSuffix ==
    [][(call'.fn = "createIssueDirectAction"
            \/ (call'.fn = "interpreterSettles" /\ inflight > 0))
        => /\ Created'
           /\ result'.id = Some(C25_Expected(issuesDB))
           /\ issuesDB'[1].id = C25_Expected(issuesDB)
           /\ (IdsOf(issuesDB) = {IssueId(<<"0", "0", "1">>), IssueId(<<"0", "0", "2">>),
                                  IssueId(<<"0", "0", "3">>)}
                    => result'.id = Some(IssueId(<<"0", "0", "4">>)))]_vars

\* C25 witness: a create on a store that holds SF-002, the malformed SF-12a
\* and the bare prefix SF- has minted SF-003.
C25_Witness ==
    /\ Created
    /\ result.id = Some(IssueId(<<"0", "0", "3">>))
    /\ IssueId(<<"1", "2", "a">>) \in IdsOf(issuesDB)
    /\ IssueId(<<>>) \in IdsOf(issuesDB)
    /\ Len(issuesDB) = 4

\* Every record of the store after a step is a record of the store before it
\* or the whole outcome of the mutation the step reports: the step succeeded,
\* reports that record, and the record carries the step's last clock reading.
C26_StepIsWholeMutation ==
    \A i \in DOMAIN issuesDB' :
        \/ \E j \in DOMAIN issuesDB : issuesDB[j] = issuesDB'[i]
        \/ /\ result'.status = "success"
           /\ result'.id = Some(issuesDB'[i].id)
           /\ issuesDB'[i].updatedAt = clock'

\* C26: while a command waits for the interpreter and form submissions run
\* in between, every step leaves only whole mutations in the store, and the
\* identifier the waiting createIssue command mints when it resumes is none
\* of those minted by the creates that ran during its wait.
C26_AtomicAndDistinctMints ==
    [][/\ C26_StepIsWholeMutation
       /\ CommandCreated' =>
            Get(result'.id) \notin (everStored \ IdsOf(initialIssues))]_vars

\* C27: a processIssueCommandAction call starts at most one interpreter call.
\* With an empty command it starts none, returns an error and leaves the
\* stores alone; with a valid command it starts exactly one; and when the
\* interpreter call ends, in a failure of the interpreter or of the dispatch
\* as in a success, the call returns without starting another.
C27_InterpreterCalledAtMostOnce ==
    [][/\ call'.fn = "processIssueCommandAction" =>
            IF call'.arg.command \in {None, Some("")}
            THEN /\ inflight' = inflight
                 /\ result'.status = "error"
                 /\ issuesDB' = issuesDB
                 /\ assigneesDB' = assigneesDB
            ELSE /\ inflight' = inflight + 1
                 /\ result' = Pending
       /\ call'.fn = "interpreterSettles" =>
            /\ inflight' = inflight - 1
            /\ result'.status \in {"success", "error"}]_vars

\* C27 witness: the only command in flight has ended in an error after the
\* interpreter call failed, and no interpreter call is outstanding.
C27_Witness ==
    /\ call.fn = "interpreterSettles"
    /\ call.arg.rejected
    /\ result.status = "error"
    /\ inflight = 0

\* C28: id, reporter and createdAt of a record stay as they were at creation
\* while the record is in the store: a step keeps reporter and createdAt of
\* every identifier it keeps, only a create or a delete changes which
\* identifiers are stored and where, and a create stamps the reporter
\* "Manual Form Entry" from the form and "AI Command Bar" from a command.
C28_CreationFieldsKept ==
    [][/\ \A i \in DOMAIN issuesDB : \A j \in DOMAIN issuesDB' :
            issuesDB[i].id = issuesDB'[j].id =>
                /\ issuesDB'[j].reporter = issuesDB[i].reporter
                /\ issuesDB'[j].createdAt = issuesDB[i].createdAt
       /\ (~Created' /\ call'.fn # "deleteIssueAction") =>
            [i \in DOMAIN issuesDB' |-> issuesDB'[i].id]
                = [i \in DOMAIN issuesDB |-> issuesDB[i].id]
       /\ DirectCreated' => issuesDB'[1].reporter = "Manual Form Entry"
       /\ CommandCreated' => issuesDB'[1].reporter = "AI Command Bar"]_vars

\* C28 witness: the form has updated SF-006, a record a command had created,
\* and the record still names the command bar as its reporter.
C28_Witness ==
    /\ FormUpdated
    /\ result.id = Some(Id006)
    /\ IssueById(issuesDB, Id006).reporter = "AI Command Bar"
    /\ IssueById(issuesDB, Id006).updatedAt > IssueById(issuesDB, Id006).createdAt

\* Every record has a non-empty title, a status and a priority of the enums.
C29_FieldsWellFormed ==
    \A i \in DOMAIN issuesDB :
        /\ issuesDB[i].title # ""
        /\ issuesDB[i].status \in issueStatuses
        /\ issuesDB[i].priority \in issuePriorities

\* The interpreter has returned an updateIssueStatus or updateIssuePriority
\* whose value is given and is no member of the enum.
C29_ValueOutsideEnum ==
    /\ call'.fn = "interpreterSettles"
    /\ ~call'.arg.rejected
    /\ call'.arg.output # None
    /\ LET interpretation == Get(call'.arg.output)
       IN  \/ /\ interpretation.action = "updateIssueStatus"
              /\ interpretation.status # None
              /\ Get(interpretation.status) \notin issueStatuses
           \/ /\ interpretation.action = "updateIssuePriority"
              /\ interpretation.priority # None
              /\ Get(interpretation.priority) \notin issuePriorities

\* C29 as stated: every reachable state has only records with a non-empty
\* title and a status and priority of the enums, and an updateIssueStatus or
\* updateIssuePriority command with a value outside the enum returns an error
\* and stores nothing.
C29_WellFormedAndOutsideEnumIsError ==
    /\ []C29_FieldsWellFormed
    /\ [][C29_ValueOutsideEnum =>
            /\ result'.status = "error"
            /\ issuesDB' = issuesDB]_vars

\* C29 amended: the same invariant, and such a command stores nothing and
\* returns an error when it names a target identifier; when it names none it
\* returns 'success' with the interpretation and no affected identifier.
C29_WellFormedAndOutsideEnumNotStored ==
    /\ []C29_FieldsWellFormed
    /\ [][C29_ValueOutsideEnum =>
            /\ issuesDB' = issuesDB
            /\ IF Get(call'.arg.output).issueId \in {None, Some(<<>>)}
               THEN /\ result'.status = "success"
                    /\ result'.id = None
                    /\ result'.interpretation = call'.arg.output
               ELSE result'.status = "error"]_vars

\* C29 witness: an updateIssueStatus to "Unknown" for the stored SF-001 has
\* been refused as an invalid status and SF-001 keeps its status.
C29_Witness ==
    /\ call.fn = "interpreterSettles"
    /\ Get(call.arg.output).action = "updateIssueStatus"
    /\ Get(call.arg.output).status = Some("Unknown")
    /\ result.status = "error"
    /\ result.message = "Invalid status."
    /\ IssueById(issuesDB, Id001).status = initialIssues[1].status

\* C30: the target of a command is looked up when the interpreter has
\* returned: a command that names an identifier the store does not hold at
\* that moment, as after a deleteIssueAction during the wait, returns the
\* not-found error with no affected identifier and leaves the store exactly
\* as it is, the deleted record not re-inserted.
C30_DeletedTargetNotFound ==
    [][(/\ call'.fn = "interpreterSettles"
        /\ ~call'.arg.rejected
        /\ call'.arg.output # None
        /\ Get(call'.arg.output).action # "createIssue"
        /\ Get(call'.arg.output).issueId \notin {None, Some(<<>>)}
        /\ Get(Get(call'.arg.output).issueId) \notin IdsOf(issuesDB))
        => /\ result'.status = "error"
           /\ result'.message = "Issue not found."
           /\ result'.id = None
           /\ issuesDB' = issuesDB]_vars

\* C30 witness: the command that was waiting has come back for SF-001, which
\* a deleteIssueAction removed during the wait; it reports not found, and
\* the store holds the four other records.
C30_Witness ==
    /\ call.fn = "interpreterSettles"
    /\ call.arg.output # None
    /\ Get(call.arg.output).issueId = Some(Id001)
    /\ result.message = "Issue not found."
    /\ [i \in DOMAIN issuesDB |-> issuesDB[i].id]
            = [i \in 1..4 |-> initialIssues[i + 1].id]

====
